---- MODULE Spec2Model ----
(***************************************************************************)
(* The incremental synchronization pipeline of us-labor-dashboard:         *)
(* src/src/bls_api.py (Provider Client: fetch_bls_tidy, fetch_bls_wide)    *)
(* and src/src/update_data.py (Synchronization Engine and Persistence      *)
(* Writer: update_dataset).                                                *)
(*                                                                         *)
(* A DataFrame is a record [cols, rows]: cols the sequence of column       *)
(* names, rows a sequence of functions from the column names to numbers.   *)
(* A date (always the first day of a month) is the month index             *)
(* year * 12 + month - 1.  A float is kept in tenths (3.1 is 31).          *)
(***************************************************************************)
EXTENDS Integers, Sequences, FiniteSets, TLC

VARIABLES
    data_file,        \* data/bls_monthly.csv
    build_info_file,  \* data/build_info.json
    provider,         \* what the remote provider publishes: slot -> raw value
    pc,               \* position of update_dataset
    api_key,          \* whether BLS_API_KEY is set in the environment of the runs
    preferred_api_version,  \* --api-version of the runs
    startyear,        \* locals of update_dataset
    old_keep,
    api_used,
    new,
    combined,
    requests,         \* fetch_bls_wide calls of the current run, in order
                      \* (http: it made a request; fast: it ended before any
                      \* request or sleep)
    pre,              \* the two files as they were when the run started
    args,             \* --refresh-months and --initial-years of the runs
    raised,           \* the exception the current run ended with, "" if none
    last,             \* the previous run when it committed, for two-run properties
    runs,             \* number of runs started
    published,        \* number of provider publications
    call,             \* a direct call of the Provider Client: its arguments
    c_pc,             \* position of fetch_bls_tidy / fetch_bls_wide in that call
    attempt,          \* locals of fetch_bls_tidy
    last_err,
    posts,            \* how the requests.post of each attempt so far ended
    sleeps,           \* the time.sleep calls so far, in seconds
    result            \* what the call returned or raised

vars == << data_file, build_info_file, provider, pc, api_key,
           preferred_api_version, startyear, old_keep, api_used, new,
           combined, requests, pre, args, raised, last, runs, published,
           call, c_pc, attempt, last_err, posts, sleeps, result >>

engine_vars == << data_file, build_info_file, provider, pc, api_key,
                  preferred_api_version, startyear, old_keep, api_used, new,
                  combined, requests, pre, args, raised, last, runs, published >>

client_vars == << call, c_pc, attempt, last_err, posts, sleeps, result >>

(***************************************************************************)
(* Bounds of the model.                                                    *)
(***************************************************************************)
MaxRuns == 2        \* sync runs in one behaviour
MaxPublish == 1     \* provider publications or revisions in one behaviour

(***************************************************************************)
(* Program constants.                                                      *)
(***************************************************************************)
\* SERIES_META keys, in declared order (two of the catalog's series; their
\* declared order is not their sorted order, as in the catalog).
series_ids == << "CES0500000003", "CES0500000002" >>

\* BLS_ENDPOINTS keys.
BLS_ENDPOINTS == { "v2", "v1" }

max_retries == 3

\* The clock of the run: pd.Timestamp.utcnow().year.
endyear == 2024

\* Float NaN (a hole of the pivot, an unparseable value, an empty CSV cell)
\* and pd.NA (a column added by update_dataset).
NaN == -1
NA == -2

Absent(v) == v = NaN \/ v = NA

(***************************************************************************)
(* Inputs.                                                                 *)
(***************************************************************************)
Years == { 2023, 2024 }
Periods == { "M01", "M07" }
RawValues == { "3.1", "3.3", "-" }
NoEntry == "none"
RefreshMonths == { 6, 18 }
\* argparse type=int accepts any integer: 0 is one the script takes
InitialYears == { 0, 1, 2 }
ApiVersions == { "v2", "v1", "v3" }

\* the observations the provider may publish: the first series from the
\* middle of the earlier year on, the second once in the current year
Slots == ({ << series_ids[1], y, p >> : y \in Years, p \in Periods }
              \ { << series_ids[1], 2023, "M01" >> })
         \cup { << series_ids[2], endyear, "M07" >> }

(***************************************************************************)
(* Dates.                                                                  *)
(***************************************************************************)
Timestamp(year, month) == year * 12 + month - 1
YearOf(d) == d \div 12
MonthOf(d) == (d % 12) + 1

\* str(date) / the CSV's YYYY-MM-DD and parse_dates back.
DateText(d) == [ y |-> YearOf(d), m |-> MonthOf(d), d |-> 1 ]
ParseDate(t) == Timestamp(t.y, t.m)

(***************************************************************************)
(* Sequence helpers.                                                       *)
(***************************************************************************)
Range(s) == { s[i] : i \in 1..Len(s) }

RECURSIVE Concat(_)
Concat(ss) == IF ss = << >> THEN << >> ELSE Head(ss) \o Concat(Tail(ss))

\* lexicographic order of the catalog's series ids (they differ in the last digit)
SidRank(s) == CASE s = "CES0500000002" -> 2
                [] s = "CES0500000003" -> 3
                [] OTHER -> 9

\* stable insertion sort of a sequence by an integer key
RECURSIVE InsertBy(_, _, _)
InsertBy(Key(_), r, s) ==
    IF s = << >> THEN << r >>
    ELSE IF Key(r) < Key(Head(s)) THEN << r >> \o s
    ELSE << Head(s) >> \o InsertBy(Key, r, Tail(s))

RECURSIVE SortBy(_, _)
SortBy(Key(_), s) ==
    IF s = << >> THEN << >>
    ELSE InsertBy(Key, s[Len(s)], SortBy(Key, SubSeq(s, 1, Len(s) - 1)))

RECURSIVE SetToSortedSeq(_, _)
SetToSortedSeq(Key(_), S) ==
    IF S = {} THEN << >>
    ELSE LET m == CHOOSE x \in S : \A y \in S : Key(x) <= Key(y)
         IN << m >> \o SetToSortedSeq(Key, S \ { m })

Ident(x) == x
DateKey(r) == r["date"]

(***************************************************************************)
(* The remote provider: the JSON response to one POST.                     *)
(***************************************************************************)
PeriodMonth(period) == CASE period = "M01" -> 1
                         [] period = "M07" -> 7
                         [] period = "M12" -> 12
                         [] OTHER -> 13

ItemKey(item) == 0 - Timestamp(item.year, PeriodMonth(item.period))

\* the data array of one series for the requested years, newest first
SeriesData(db, sid, sy, ey) ==
    SetToSortedSeq(ItemKey,
        { [ year |-> sl[2], period |-> sl[3], value |-> db[sl] ] :
            sl \in { x \in DOMAIN db : /\ x[1] = sid
                                  /\ db[x] # NoEntry
                                  /\ sy <= x[2] /\ x[2] <= ey } })

\* the shapes of Results that hold no series array: no Results at all
\* ("other"), an empty list, a list of something that is no object
OtherShapes == { "other", "empty_list", "list_of_str" }

\* the body of a 200 response with status REQUEST_SUCCEEDED; shape is how
\* Results nests the series array: directly in an object ("dict"), in the
\* single object of a list ("list"), or not at all (OtherShapes).  A JSON
\* value is a record with its Python type.
Payload(db, sids, sy, ey, shape) ==
    LET series == [ i \in 1..Len(sids) |->
                      [ seriesID |-> sids[i],
                        data |-> SeriesData(db, sids[i], sy, ey) ] ]
        object == [ type |-> "dict", series |-> series ]
    IN [ status |-> "REQUEST_SUCCEEDED",
         Results |-> CASE shape = "dict" -> object
                       [] shape = "list" -> [ type |-> "list", items |-> << object >> ]
                       [] shape = "empty_list" -> [ type |-> "list", items |-> << >> ]
                       [] shape = "list_of_str" ->
                            [ type |-> "list", items |-> << [ type |-> "str" ] >> ]
                       [] OTHER -> [ type |-> "NoneType" ] ]

(***************************************************************************)
(* bls_api.py                                                              *)
(***************************************************************************)
\* mutant: only the object shape is recognized
_extract_series_list_dict_only(payload) ==
    LET results == payload.Results
    IN IF results.type = "dict" THEN results.series ELSE << >>

_extract_series_list(payload) ==
    LET results == payload.Results
    IN IF results.type = "dict"
       THEN results.series
       ELSE IF /\ results.type = "list"
               /\ results.items # << >>
               /\ results.items[1].type = "dict"
       THEN results.items[1].series
       ELSE << >>

\* a period code as the code points of its characters
Chars(s) == CASE s = "M01" -> << 77, 48, 49 >>
              [] s = "M07" -> << 77, 48, 55 >>
              [] s = "M12" -> << 77, 49, 50 >>
              [] s = "M13" -> << 77, 49, 51 >>
              [] s = "S01" -> << 83, 48, 49 >>
              [] OTHER -> << >>

\* a <= b on Python strings: lexicographic by code point, a prefix first
RECURSIVE StrLE(_, _)
StrLE(a, b) ==
    IF a = << >> THEN TRUE
    ELSE IF b = << >> THEN FALSE
    ELSE IF Head(a) # Head(b) THEN Head(a) < Head(b)
    ELSE StrLE(Tail(a), Tail(b))

\* mutant: the upper end of the period filter one code late
IsMonthlyThrough13(period) ==
    StrLE(Chars("M01"), Chars(period)) /\ StrLE(Chars(period), Chars("M13"))

\* "M01" <= period <= "M12"
IsMonthly(period) ==
    StrLE(Chars("M01"), Chars(period)) /\ StrLE(Chars(period), Chars("M12"))

\* pd.to_numeric(value, errors="coerce")
to_numeric(value) == CASE value = "3.1" -> 31
                       [] value = "3.3" -> 33
                       [] OTHER -> NaN

\* the rows one series contributes (the inner loop of fetch_bls_tidy)
RECURSIVE SeriesRows(_, _)
SeriesRows(sid, items) ==
    IF items = << >> THEN << >>
    ELSE LET item == Head(items)
             rest == SeriesRows(sid, Tail(items))
         IN IF ~IsMonthly(item.period) THEN rest
            ELSE << [ date |-> Timestamp(item.year, PeriodMonth(item.period)),
                      series_id |-> sid,
                      value |-> to_numeric(item.value) ] >> \o rest

TidyRows(series_list) ==
    Concat([ i \in 1..Len(series_list) |->
               SeriesRows(series_list[i].seriesID, series_list[i].data) ])

TidyKey(r) == SidRank(r.series_id) * 100000 + r.date

\* pd.DataFrame(rows).dropna(subset=["value"]).sort_values(["series_id","date"])
TidyFrame(rows) == SortBy(TidyKey, SelectSeq(rows, LAMBDA r : r.value # NaN))

\* mutant: an unparseable value raises (errors="raise") instead of giving NaN
ParseBodyStrict(payload) ==
    LET series_list == _extract_series_list(payload)
        rows == TidyRows(series_list)
    IN IF series_list = << >>
       THEN [ does |-> "except", cause |-> "BLSError:no series", df |-> << >> ]
       ELSE IF \E i \in 1..Len(rows) : rows[i].value = NaN
       THEN [ does |-> "except", cause |-> "ValueError", df |-> << >> ]
       ELSE IF rows = << >>
       THEN [ does |-> "except", cause |-> "KeyError", df |-> << >> ]
       ELSE [ does |-> "return", cause |-> "", df |-> TidyFrame(rows) ]

\* Lines 125-176 on the body of a 200 response with status
\* REQUEST_SUCCEEDED: "return" carries the DataFrame, "except" is an
\* exception raised inside the try block (caught by `except Exception`).
ParseBody(payload) ==
    LET series_list == _extract_series_list(payload)
        rows == TidyRows(series_list)
    IN IF series_list = << >>
       THEN [ does |-> "except", cause |-> "BLSError:no series", df |-> << >> ]
       ELSE IF rows = << >>
       THEN [ does |-> "except", cause |-> "KeyError", df |-> << >> ]
       ELSE [ does |-> "return", cause |-> "", df |-> TidyFrame(rows) ]

\* what the provider would answer to this request, parsed, per envelope shape
Parsed(db, sids, sy, ey) ==
    [ dict |-> ParseBody(Payload(db, sids, sy, ey, "dict")),
      list |-> ParseBody(Payload(db, sids, sy, ey, "list")),
      other |-> ParseBody(Payload(db, sids, sy, ey, "other")) ]

\* One attempt whose HTTP exchange ended as `out`: "continue" is the
\* transient status branch, "except" any exception of the try block.
Attempt(parsed, out) ==
    IF out.kind = "transient" THEN [ does |-> "continue", cause |-> "", df |-> << >> ]
    ELSE IF out.kind = "error"
         THEN [ does |-> "except", cause |-> "HTTPError", df |-> << >> ]
    ELSE IF out.kind = "not_succeeded"
         THEN [ does |-> "except", cause |-> "BLSError:status", df |-> << >> ]
    ELSE parsed[out.shape]

\* the retry loop from attempt number `attempt` on
RECURSIVE RetryLoop(_, _, _, _, _)
RetryLoop(parsed, outs, n, err, slept) ==
    IF n > max_retries
    THEN [ ok |-> FALSE, err |-> "BLSError", cause |-> err,
           attempts |-> max_retries, slept |-> slept, df |-> << >> ]
    ELSE LET a == Attempt(parsed, outs[n])
         IN IF a.does = "return"
            THEN [ ok |-> TRUE, err |-> "", cause |-> err,
                   attempts |-> n, slept |-> slept, df |-> a.df ]
            ELSE IF a.does = "continue"
            THEN RetryLoop(parsed, outs, n + 1, err, Append(slept, 2 * n))
            ELSE RetryLoop(parsed, outs, n + 1, a.cause, Append(slept, 1 * n))

\* mutant: no check of api_version before the loop
fetch_bls_tidy_unchecked(parsed, api_version, outs) ==
    RetryLoop(parsed, outs, 1, "None", << >>)

\* fetch_bls_tidy for a request whose answers would parse as `parsed`, the
\* HTTP exchanges of its attempts ending as outs[1], outs[2], ...
fetch_bls_tidy(parsed, api_version, outs) ==
    IF api_version \notin BLS_ENDPOINTS
    THEN [ ok |-> FALSE, err |-> "ValueError", cause |-> "None",
           attempts |-> 0, slept |-> << >>, df |-> << >> ]
    ELSE RetryLoop(parsed, outs, 1, "None", << >>)

\* tidy.pivot(index="date", columns="series_id", values="value")
\*     .sort_index().reset_index()
Pivot(tidy) ==
    LET dates == SetToSortedSeq(Ident, { tidy[i].date : i \in 1..Len(tidy) })
        sids == SetToSortedSeq(SidRank, { tidy[i].series_id : i \in 1..Len(tidy) })
        Cell(d, s) ==
            IF \E i \in 1..Len(tidy) : tidy[i].date = d /\ tidy[i].series_id = s
            THEN (CHOOSE r \in Range(tidy) : r.date = d /\ r.series_id = s).value
            ELSE NaN
    IN [ cols |-> << "date" >> \o sids,
         rows |-> [ i \in 1..Len(dates) |->
                      [ c \in { "date" } \cup Range(sids) |->
                          IF c = "date" THEN dates[i] ELSE Cell(dates[i], c) ] ] ]

\* fetch_bls_wide on the outcome of its fetch_bls_tidy call
fetch_bls_wide(tidy) ==
    IF tidy.ok
    THEN [ ok |-> TRUE, err |-> "", attempts |-> tidy.attempts,
           slept |-> tidy.slept, wide |-> Pivot(tidy.df) ]
    ELSE [ ok |-> FALSE, err |-> tidy.err, attempts |-> tidy.attempts,
           slept |-> tidy.slept, wide |-> [ cols |-> << >>, rows |-> << >> ] ]

(***************************************************************************)
(* The two files.  A CSV cell is text: a date is YYYY-MM-DD, a float its   *)
(* decimal text, an absent value the empty string.                         *)
(***************************************************************************)
NaT == -3
NaTText == [ y |-> 0, m |-> 0, d |-> 0 ]

FloatText(v) == CASE v = 31 -> "3.1"
                  [] v = 33 -> "3.3"
                  [] OTHER -> ""

ParseFloat(t) == CASE t = "3.1" -> 31
                   [] t = "3.3" -> 33
                   [] OTHER -> NaN

NoFile == [ exists |-> FALSE, cols |-> << >>, rows |-> << >> ]
NoInfo == [ exists |-> FALSE, api_version_used |-> "", startyear_requested |-> 0,
           endyear_requested |-> 0, min_date |-> NaTText, max_date |-> NaTText,
           n_rows |-> 0 ]

\* combined.to_csv(data_path, index=False)
to_csv(df) ==
    [ exists |-> TRUE,
      cols |-> df.cols,
      rows |-> [ i \in 1..Len(df.rows) |->
                   [ c \in Range(df.cols) |->
                       IF c = "date" THEN DateText(df.rows[i][c])
                       ELSE FloatText(df.rows[i][c]) ] ] ]

sort_values(df) == [ cols |-> df.cols, rows |-> SortBy(DateKey, df.rows) ]

\* pd.read_csv(data_path, parse_dates=["date"]).sort_values("date")
read_csv(file) ==
    sort_values(
        [ cols |-> file.cols,
          rows |-> [ i \in 1..Len(file.rows) |->
                       [ c \in Range(file.cols) |->
                           IF c = "date" THEN ParseDate(file.rows[i][c])
                           ELSE ParseFloat(file.rows[i][c]) ] ] ])

\* combined["date"].min() / .max(); NaT on a frame without rows
MinDate(df) == IF df.rows = << >> THEN NaT
               ELSE CHOOSE d \in { r["date"] : r \in Range(df.rows) } :
                        \A r \in Range(df.rows) : d <= r["date"]
MaxDate(df) == IF df.rows = << >> THEN NaT
               ELSE CHOOSE d \in { r["date"] : r \in Range(df.rows) } :
                        \A r \in Range(df.rows) : d >= r["date"]

\* str(x.date())
DateStr(d) == IF d = NaT THEN NaTText ELSE DateText(d)

(***************************************************************************)
(* update_data.py: the steps of update_dataset as operators.               *)
(***************************************************************************)
EmptyFrame == [ cols |-> << >>, rows |-> << >> ]

expected_cols == << "date" >> \o series_ids

\* mutant: the refresh window counted back in whole years only
StartYearWholeYears(old, refresh_months) ==
    YearOf(MaxDate(old)) - (refresh_months \div 12)

\* Step 1, existing dataset: year of (max_date - DateOffset(months=refresh_months))
StartYearExisting(old, refresh_months) == YearOf(MaxDate(old) - refresh_months)

\* Step 1, no dataset yet
StartYearInitial(initial_years) == endyear - initial_years + 1

\* mutant: nothing of the stored dataset is kept
OldKeepNothing(old, sy) == [ cols |-> old.cols, rows |-> << >> ]

\* mutant: the cutoff one year early
OldKeepYearEarly(old, sy) ==
    [ cols |-> old.cols,
      rows |-> SelectSeq(old.rows, LAMBDA r : r["date"] < Timestamp(sy - 1, 1)) ]

\* mutant: the cutoff one year late
OldKeepThroughYear(old, sy) ==
    [ cols |-> old.cols,
      rows |-> SelectSeq(old.rows, LAMBDA r : r["date"] < Timestamp(sy + 1, 1)) ]

\* old.loc[old["date"] < pd.Timestamp(year=startyear, month=1, day=1)]
OldKeep(old, sy) ==
    [ cols |-> old.cols,
      rows |-> SelectSeq(old.rows, LAMBDA r : r["date"] < Timestamp(sy, 1)) ]

\* pd.concat([a, b], ignore_index=True): the union of the columns, a's first
concat(a, b) ==
    LET cols == a.cols \o SelectSeq(b.cols, LAMBDA c : c \notin Range(a.cols))
        Widen(df) == [ i \in 1..Len(df.rows) |->
                         [ c \in Range(cols) |->
                             IF c \in Range(df.cols) THEN df.rows[i][c] ELSE NaN ] ]
    IN [ cols |-> cols, rows |-> Widen(a) \o Widen(b) ]

\* mutant: the missing columns are added, the columns are not put in order
WithMissingColsAppended(df) ==
    LET cols == df.cols \o SelectSeq(expected_cols, LAMBDA c : c \notin Range(df.cols))
    IN [ cols |-> cols,
         rows |-> [ i \in 1..Len(df.rows) |->
                      [ c \in Range(cols) |->
                          IF c \in Range(df.cols) THEN df.rows[i][c] ELSE NA ] ] ]

\* the loop adding the missing expected columns, then combined[expected_cols]
WithExpectedCols(df) ==
    [ cols |-> expected_cols,
      rows |-> [ i \in 1..Len(df.rows) |->
                   [ c \in Range(expected_cols) |->
                       IF c \in Range(df.cols) THEN df.rows[i][c] ELSE NA ] ] ]

\* drop_duplicates(subset=["date"], keep="last")
drop_duplicates(df) ==
    LET n == Len(df.rows)
        Kept(i) == \A j \in (i + 1)..n : df.rows[j]["date"] # df.rows[i]["date"]
        RECURSIVE Keep(_)
        Keep(i) == IF i > n THEN << >>
                   ELSE IF Kept(i) THEN << df.rows[i] >> \o Keep(i + 1)
                   ELSE Keep(i + 1)
    IN [ cols |-> df.cols, rows |-> Keep(1) ]

\* mutant: the fallback rule without its `not api_key` test
FallbackIgnoresKey(err, version, key) ==
    err = "BLSError" /\ version = "v2"

\* mutant: the fallback rule testing for the wrong preferred version
FallbackWrongVersion(err, version, key) ==
    err = "BLSError" /\ version = "v1" /\ ~key

\* lines 138-141: the failure is a BLSError, v2 was preferred, no key is set
FallbackApplies(err, version, key) ==
    err = "BLSError" /\ version = "v2" /\ ~key

\* drop_duplicates(subset=["date"], keep="first"), used by a mutant
drop_duplicates_first(df) ==
    LET n == Len(df.rows)
        Kept(i) == \A j \in 1..(i - 1) : df.rows[j]["date"] # df.rows[i]["date"]
        RECURSIVE Keep(_)
        Keep(i) == IF i > n THEN << >>
                   ELSE IF Kept(i) THEN << df.rows[i] >> \o Keep(i + 1)
                   ELSE Keep(i + 1)
    IN [ cols |-> df.cols, rows |-> Keep(1) ]

\* mutant: the fetched rows first, no sort after the de-duplication
MergeFreshFirstUnsorted(keep, fresh) ==
    LET both == IF keep.rows # << >> THEN concat(fresh, keep) ELSE fresh
    IN drop_duplicates(WithExpectedCols(both))

\* Step 3
Merge(keep, fresh) ==
    LET both == IF keep.rows # << >> THEN concat(keep, fresh) ELSE fresh
    IN sort_values(drop_duplicates(WithExpectedCols(both)))

\* Step 4, build_info
BuildInfo(df, used, sy) ==
    [ exists |-> TRUE,
      api_version_used |-> used,
      startyear_requested |-> sy,
      endyear_requested |-> endyear,
      min_date |-> DateStr(MinDate(df)),
      max_date |-> DateStr(MaxDate(df)),
      n_rows |-> Len(df.rows) ]

(***************************************************************************)
(* The state machine: runs of update_dataset against a provider whose      *)
(* published data changes between runs.                                    *)
(***************************************************************************)
\* how the HTTP exchange of one attempt may end
Outcomes ==
    [ kind : { "transient", "error", "not_succeeded" }, shape : { "dict" } ]
    \cup [ kind : { "ok" }, shape : { "dict", "list", "other" } ]

\* every way one fetch_bls_wide call of update_dataset may end
Fetches(db, sy, api_version) ==
    LET parsed == Parsed(db, series_ids, sy, endyear)
    IN { fetch_bls_wide(t) :
           t \in { fetch_bls_tidy(parsed, api_version, outs) :
                     outs \in [ 1..max_retries -> Outcomes ] } }

NoPre == [ data |-> NoFile, info |-> NoInfo ]

\* the Provider Client is not being called directly
NoCall == [ api_version |-> "", startyear |-> 0, endyear |-> 0 ]
NoResult == [ err |-> "", cause |-> "", tidy |-> << >>, wide |-> EmptyFrame ]

ClientIdle ==
    /\ call = NoCall
    /\ c_pc = "idle"
    /\ attempt = 0
    /\ last_err = "None"
    /\ posts = << >>
    /\ sleeps = << >>
    /\ result = NoResult
NoLast == [ valid |-> FALSE, data |-> NoFile, startyear |-> 0 ]

\* what the provider has published when the behaviour starts: a single
\* observation of the first series in the earlier year, or every observation
SparseDb == [ sl \in Slots |->
                IF sl = << series_ids[1], 2023, "M07" >> THEN "3.1" ELSE NoEntry ]
FullDb == [ sl \in Slots |-> "3.1" ]

Init ==
    /\ data_file = NoFile
    /\ build_info_file = NoInfo
    /\ provider \in { SparseDb, FullDb }
    /\ pc = "idle"
    /\ api_key \in BOOLEAN
    /\ preferred_api_version \in ApiVersions
    /\ args \in [ refresh_months : RefreshMonths, initial_years : InitialYears ]
    /\ startyear = 0
    /\ old_keep = EmptyFrame
    /\ api_used = ""
    /\ new = EmptyFrame
    /\ combined = EmptyFrame
    /\ requests = << >>
    /\ pre = NoPre
    /\ raised = ""
    /\ last = NoLast
    /\ runs = 0
    /\ published = 0
    /\ ClientIdle

\* the provider publishes, revises or blanks one observation between runs
ProviderPublish ==
    /\ pc = "idle"
    /\ published < MaxPublish
    /\ \E sl \in Slots, v \in RawValues :
        /\ provider[sl] # v
        /\ provider' = [ provider EXCEPT ![sl] = v ]
    /\ published' = published + 1
    /\ last' = NoLast
    /\ UNCHANGED << data_file, build_info_file, pc, api_key,
                    preferred_api_version, startyear, old_keep, api_used, new,
                    combined, requests, pre, args, raised, runs >>
    /\ UNCHANGED client_vars

\* update_dataset, lines 93-128: read the stored dataset, compute the window
StartRun ==
    /\ pc = "idle"
    /\ runs < MaxRuns
    /\ LET rm == args.refresh_months
           iy == args.initial_years
           ver == preferred_api_version
       IN IF data_file.exists
          THEN LET old == read_csv(data_file)
               IN IF old.rows = << >>
                  THEN \* max() of no dates is NaT: int(nan) raises
                       /\ pc' = "failed"
                       /\ raised' = "ValueError"
                       /\ UNCHANGED << startyear, old_keep, api_used >>
                  ELSE /\ startyear' = StartYearExisting(old, rm)
                       /\ old_keep' = OldKeep(old, startyear')
                       /\ api_used' = ver
                       /\ pc' = "fetch"
                       /\ UNCHANGED raised
          ELSE /\ old_keep' = EmptyFrame
               /\ startyear' = StartYearInitial(iy)
               /\ api_used' = ver
               /\ pc' = "fetch"
               /\ UNCHANGED raised
    /\ pre' = [ data |-> data_file, info |-> build_info_file ]
    /\ runs' = runs + 1
    /\ UNCHANGED << data_file, build_info_file, provider, api_key,
                    preferred_api_version, args, new, combined, requests,
                    last, published >>
    /\ UNCHANGED client_vars

\* lines 130-152, the first fetch_bls_wide call and the fallback rule
FetchPreferred ==
    /\ pc = "fetch"
    /\ \E r \in Fetches(provider, startyear, preferred_api_version) :
           /\ requests' = Append(requests,
                   [ api_version |-> preferred_api_version,
                     api_key |-> api_key, startyear |-> startyear,
                     endyear |-> endyear, http |-> r.attempts > 0,
                     fast |-> r.attempts = 0 /\ r.slept = << >>,
                     ok |-> r.ok ])
           /\ IF r.ok
              THEN /\ new' = r.wide
                   /\ pc' = "write_data"
                   /\ UNCHANGED << api_used, raised >>
              ELSE IF FallbackApplies(r.err, preferred_api_version, api_key)
              THEN /\ api_used' = "v1"
                   /\ pc' = "fallback"
                   /\ UNCHANGED << new, raised >>
              ELSE /\ raised' = r.err
                   /\ pc' = "failed"
                   /\ UNCHANGED << new, api_used >>
    /\ UNCHANGED << data_file, build_info_file, provider, api_key,
                    preferred_api_version, startyear, old_keep, combined,
                    pre, args, last, runs, published >>
    /\ UNCHANGED client_vars

\* mutant: a failure of the v1 call is swallowed and the run goes on to merge
\* and write with nothing fetched
FetchFallbackSwallows ==
    /\ pc = "fallback"
    /\ \E r \in Fetches(provider, startyear, "v1") :
           /\ requests' = Append(requests,
                   [ api_version |-> "v1", api_key |-> FALSE,
                     startyear |-> startyear, endyear |-> endyear,
                     http |-> r.attempts > 0,
                     fast |-> r.attempts = 0 /\ r.slept = << >>,
                     ok |-> r.ok ])
           /\ new' = IF r.ok THEN r.wide ELSE [ cols |-> << "date" >>, rows |-> << >> ]
           /\ pc' = "write_data"
           /\ UNCHANGED raised
    /\ UNCHANGED << data_file, build_info_file, provider, api_key,
                    preferred_api_version, startyear, old_keep, api_used,
                    combined, pre, args, last, runs, published >>
    /\ UNCHANGED client_vars

\* mutant: a failed v1 call is tried again
FetchFallbackRetries ==
    /\ pc = "fallback"
    /\ \E r \in Fetches(provider, startyear, "v1") :
           /\ requests' = Append(requests,
                   [ api_version |-> "v1", api_key |-> FALSE,
                     startyear |-> startyear, endyear |-> endyear,
                     http |-> r.attempts > 0,
                     fast |-> r.attempts = 0 /\ r.slept = << >>,
                     ok |-> r.ok ])
           /\ IF r.ok
              THEN /\ new' = r.wide
                   /\ pc' = "write_data"
              ELSE /\ pc' = "fallback"
                   /\ UNCHANGED new
    /\ UNCHANGED << data_file, build_info_file, provider, api_key,
                    preferred_api_version, startyear, old_keep, api_used,
                    combined, pre, args, raised, last, runs, published >>
    /\ UNCHANGED client_vars

\* lines 144-150, the v1 call of the fallback rule
FetchFallback ==
    /\ pc = "fallback"
    /\ \E r \in Fetches(provider, startyear, "v1") :
           /\ requests' = Append(requests,
                   [ api_version |-> "v1", api_key |-> FALSE,
                     startyear |-> startyear, endyear |-> endyear,
                     http |-> r.attempts > 0,
                     fast |-> r.attempts = 0 /\ r.slept = << >>,
                     ok |-> r.ok ])
           /\ IF r.ok
              THEN /\ new' = r.wide
                   /\ pc' = "write_data"
                   /\ UNCHANGED raised
              ELSE /\ raised' = r.err
                   /\ pc' = "failed"
                   /\ UNCHANGED new
    /\ UNCHANGED << data_file, build_info_file, provider, api_key,
                    preferred_api_version, startyear, old_keep, api_used,
                    combined, pre, args, last, runs, published >>
    /\ UNCHANGED client_vars

\* mutant: the whole stored dataset is merged, the first row of a date kept
MergeKeepsStored ==
    /\ pc = "write_data"
    /\ combined' = sort_values(drop_duplicates_first(WithExpectedCols(
                        IF pre.data.rows # << >>
                        THEN concat(read_csv(pre.data), new) ELSE new)))
    /\ data_file' = to_csv(combined')
    /\ pc' = "write_info"
    /\ UNCHANGED << build_info_file, provider, api_key, preferred_api_version,
                    startyear, old_keep, api_used, new, requests, pre, args,
                    raised, last, runs, published >>
    /\ UNCHANGED client_vars

\* lines 157-180: merge, then write the dataset file
MergeAndWriteDataset ==
    /\ pc = "write_data"
    /\ combined' = Merge(old_keep, new)
    /\ data_file' = to_csv(combined')
    /\ pc' = "write_info"
    /\ UNCHANGED << build_info_file, provider, api_key, preferred_api_version,
                    startyear, old_keep, api_used, new, requests, pre, args,
                    raised, last, runs, published >>
    /\ UNCHANGED client_vars

\* lines 183-196: write the build info and return
WriteBuildInfo ==
    /\ pc = "write_info"
    /\ build_info_file' = BuildInfo(combined, api_used, startyear)
    /\ pc' = "done"
    /\ UNCHANGED << data_file, provider, api_key, preferred_api_version,
                    startyear, old_keep, api_used, new, combined, requests,
                    pre, args, raised, last, runs, published >>
    /\ UNCHANGED client_vars

\* lines 193-194 raise (the directory cannot be made, the file not written)
WriteBuildInfoFails ==
    /\ pc = "write_info"
    /\ raised' = "OSError"
    /\ pc' = "failed"
    /\ UNCHANGED << data_file, build_info_file, provider, api_key,
                    preferred_api_version, startyear, old_keep, api_used, new,
                    combined, requests, pre, args, last, runs, published >>
    /\ UNCHANGED client_vars

\* the process ends; the next run starts from the files alone
Return ==
    /\ pc \in { "done", "failed" }
    /\ last' = IF pc = "done"
               THEN [ valid |-> TRUE, data |-> data_file, startyear |-> startyear ]
               ELSE NoLast
    /\ pc' = "idle"
    /\ startyear' = 0
    /\ old_keep' = EmptyFrame
    /\ api_used' = ""
    /\ new' = EmptyFrame
    /\ combined' = EmptyFrame
    /\ requests' = << >>
    /\ pre' = NoPre
    /\ raised' = ""
    /\ UNCHANGED << data_file, build_info_file, provider, api_key,
                    preferred_api_version, args, runs, published >>
    /\ UNCHANGED client_vars

Next ==
    \/ ProviderPublish
    \/ StartRun
    \/ FetchPreferred
    \/ FetchFallback
    \/ MergeAndWriteDataset
    \/ WriteBuildInfo
    \/ WriteBuildInfoFails
    \/ Return

Spec == Init /\ [][Next]_vars

(***************************************************************************)
(* The Provider Client called directly: one fetch_bls_wide call, its       *)
(* fetch_bls_tidy retry loop taken one attempt at a time.                  *)
(***************************************************************************)
\* what the provider may hold for the call, all in the requested year:
\* two monthly entries and the annual average (M13) of the first series,
\* one monthly entry of the second
ClientSlots == { << series_ids[1], endyear, "M01" >>,
                 << series_ids[1], endyear, "M12" >>,
                 << series_ids[1], endyear, "M13" >>,
                 << series_ids[2], endyear, "M12" >> }
ClientValues == { "3.1", "-", NoEntry }

ClientInit ==
    /\ data_file = NoFile
    /\ build_info_file = NoInfo
    /\ provider \in [ ClientSlots -> ClientValues ]
    /\ pc = "idle"
    /\ api_key = FALSE
    /\ preferred_api_version = "v2"
    /\ args = [ refresh_months |-> 6, initial_years |-> 1 ]
    /\ startyear = 0
    /\ old_keep = EmptyFrame
    /\ api_used = ""
    /\ new = EmptyFrame
    /\ combined = EmptyFrame
    /\ requests = << >>
    /\ pre = NoPre
    /\ raised = ""
    /\ last = NoLast
    /\ runs = 0
    /\ published = 0
    /\ ClientIdle

\* what the provider answers to the call's request, parsed (lines 125-176)
CallParsed == Parsed(provider, series_ids, call.startyear, call.endyear)

\* lines 98-113: the version check, the request body, last_err = None
Call ==
    /\ c_pc = "idle"
    /\ call = NoCall
    /\ \E v \in ApiVersions :
        /\ call' = [ api_version |-> v, startyear |-> endyear, endyear |-> endyear ]
        /\ IF v \notin BLS_ENDPOINTS
           THEN /\ c_pc' = "raised"
                /\ result' = [ result EXCEPT !.err = "ValueError" ]
                /\ UNCHANGED attempt
           ELSE /\ c_pc' = "loop"
                /\ attempt' = 1
                /\ UNCHANGED result
    /\ last_err' = "None"
    /\ UNCHANGED << posts, sleeps >>
    /\ UNCHANGED engine_vars

\* one more value of `for attempt in range(1, max_retries + 1)`
InLoop == c_pc = "loop" /\ attempt <= max_retries

\* mutant: a transient status does not use up an attempt
PostTransientFree ==
    /\ InLoop
    /\ \E out \in Outcomes :
        /\ Attempt(CallParsed, out).does = "continue"
        /\ posts' = Append(posts, [ kind |-> out.kind, shape |-> out.shape,
                                    does |-> "continue", cause |-> "status 5xx/429" ])
    /\ sleeps' = Append(sleeps, 2 * attempt)
    /\ UNCHANGED << call, c_pc, attempt, last_err, result >>
    /\ UNCHANGED engine_vars

\* lines 117-122: a transient status: sleep 2 * attempt, continue
PostTransient ==
    /\ InLoop
    /\ \E out \in Outcomes :
        /\ Attempt(CallParsed, out).does = "continue"
        /\ posts' = Append(posts, [ kind |-> out.kind, shape |-> out.shape, does |-> "continue",
                                    cause |-> "status 5xx/429" ])
    /\ sleeps' = Append(sleeps, 2 * attempt)
    /\ attempt' = attempt + 1
    /\ UNCHANGED << call, c_pc, last_err, result >>
    /\ UNCHANGED engine_vars

\* mutant: the backoff after an exception doubles with each attempt
PostRaisesExponential ==
    /\ InLoop
    /\ \E out \in Outcomes :
        LET a == Attempt(CallParsed, out)
        IN /\ a.does = "except"
           /\ posts' = Append(posts, [ kind |-> out.kind, shape |-> out.shape,
                                       does |-> "except", cause |-> a.cause ])
           /\ last_err' = a.cause
    /\ sleeps' = Append(sleeps, 2 ^ (attempt - 1))
    /\ attempt' = attempt + 1
    /\ UNCHANGED << call, c_pc, result >>
    /\ UNCHANGED engine_vars

\* lines 117-176 raise, lines 178-181: last_err = e, sleep 1 * attempt
PostRaises ==
    /\ InLoop
    /\ \E out \in Outcomes :
        LET a == Attempt(CallParsed, out)
        IN /\ a.does = "except"
           /\ posts' = Append(posts, [ kind |-> out.kind, shape |-> out.shape, does |-> "except",
                                       cause |-> a.cause ])
           /\ last_err' = a.cause
    /\ sleeps' = Append(sleeps, 1 * attempt)
    /\ attempt' = attempt + 1
    /\ UNCHANGED << call, c_pc, result >>
    /\ UNCHANGED engine_vars

\* lines 117-176 reach `return df`: fetch_bls_tidy returns to fetch_bls_wide
PostReturns ==
    /\ InLoop
    /\ \E out \in Outcomes :
        LET a == Attempt(CallParsed, out)
        IN /\ a.does = "return"
           /\ posts' = Append(posts, [ kind |-> out.kind, shape |-> out.shape, does |-> "return",
                                       cause |-> "" ])
           /\ result' = [ result EXCEPT !.tidy = a.df ]
    /\ c_pc' = "pivot"
    /\ UNCHANGED << call, attempt, last_err, sleeps >>
    /\ UNCHANGED engine_vars

\* line 183: the loop is over, raise BLSError(... last_err)
Exhausted ==
    /\ c_pc = "loop"
    /\ attempt > max_retries
    /\ result' = [ result EXCEPT !.err = "BLSError", !.cause = last_err ]
    /\ c_pc' = "raised"
    /\ UNCHANGED << call, attempt, last_err, posts, sleeps >>
    /\ UNCHANGED engine_vars

\* lines 212-218: fetch_bls_wide pivots the tidy frame and returns
PivotWide ==
    /\ c_pc = "pivot"
    /\ result' = [ result EXCEPT !.wide = Pivot(result.tidy) ]
    /\ c_pc' = "returned"
    /\ UNCHANGED << call, attempt, last_err, posts, sleeps >>
    /\ UNCHANGED engine_vars

ClientNext ==
    \/ Call
    \/ PostTransient
    \/ PostRaises
    \/ PostReturns
    \/ Exhausted
    \/ PivotWide

\* the call runs on one thread to its end: every step it can take is taken
\* (a request ends within timeout_s, a sleep within its seconds)
ClientSpec == ClientInit /\ [][ClientNext]_vars /\ WF_vars(ClientNext)

(***************************************************************************)
(* Properties.                                                             *)
(***************************************************************************)
LastRequest == requests[Len(requests)]

FilesUntouched == data_file = pre.data /\ build_info_file = pre.info

\* C1: once the last fetch_bls_wide call the fallback rule allows has failed,
\* neither file is written: both hold what they held when the run started.
C1_NoWriteOnFetchFailure ==
    (requests # << >> /\ ~LastRequest.ok /\ pc # "fallback") => FilesUntouched

\* a run over an existing dataset whose v2 call and v1 fallback both failed
C1_Witness ==
    /\ pc = "failed"
    /\ Len(requests) = 2
    /\ ~LastRequest.ok
    /\ pre.data.exists
    /\ pre.data.rows # << >>

\* C2: v2 preferred, no key, the v2 call failed: exactly one more call is
\* made, against v1 and without a key; if it succeeds the run goes on to
\* write and returns api_used = v1, which is also what the build info says.
C2_FallbackToV1 ==
    (/\ preferred_api_version = "v2"
     /\ ~api_key
     /\ requests # << >>
     /\ ~requests[1].ok
     /\ pc # "fallback")
    => /\ Len(requests) = 2
       /\ requests[2].api_version = "v1"
       /\ ~requests[2].api_key
       /\ requests[2].ok => /\ raised \notin { "BLSError", "ValueError" }
                            /\ api_used = "v1"
                            /\ pc = "done" =>
                                 /\ build_info_file.exists
                                 /\ build_info_file.api_version_used = "v1"
                                 /\ data_file = to_csv(combined)

\* a run committed through the fallback
C2_Witness ==
    /\ pc = "done"
    /\ preferred_api_version = "v2"
    /\ ~api_key
    /\ Len(requests) = 2
    /\ ~requests[1].ok
    /\ requests[2].ok
    /\ build_info_file.api_version_used = "v1"

\* C3: with a key configured and v2 preferred, or with v1 preferred, a
\* failed fetch is followed by no other call and the run fails.
C3_NoFallback ==
    (/\ requests # << >>
     /\ ~requests[1].ok
     /\ \/ (preferred_api_version = "v2" /\ api_key)
        \/ preferred_api_version = "v1")
    => /\ Len(requests) = 1
       /\ pc = "failed"
       /\ raised = "BLSError"

\* both cases of the claim: a failed v2 call with a key, a failed v1 call
C3_Witness ==
    /\ pc = "failed"
    /\ Len(requests) = 1
    /\ ~requests[1].ok
    /\ requests[1].http
    /\ preferred_api_version = "v2"
    /\ api_key

C3_WitnessV1 ==
    /\ pc = "failed"
    /\ Len(requests) = 1
    /\ ~requests[1].ok
    /\ preferred_api_version = "v1"
    /\ ~api_key

\* the build info describes the dataset file: same run, same rows
Describes(info, file) ==
    /\ info.exists = file.exists
    /\ file.exists =>
         /\ info.n_rows = Len(file.rows)
         /\ file.rows # << >> =>
              /\ \E r \in Range(file.rows) : r["date"] = info.min_date
              /\ \E r \in Range(file.rows) : r["date"] = info.max_date
              /\ \A r \in Range(file.rows) :
                   /\ ParseDate(info.min_date) <= ParseDate(r["date"])
                   /\ ParseDate(r["date"]) <= ParseDate(info.max_date)

\* C4: a run commits both files or none: when a run has ended, committed or
\* failed at any step, the build info's n_rows, min_date and max_date are
\* those of the dataset file.
C4_BothOrNothing ==
    pc \in { "done", "failed" } => Describes(build_info_file, data_file)

\* the stored dataset the run started from, its cutoff, and frame helpers
Old == read_csv(pre.data)
Cutoff == Timestamp(startyear, 1)
Merged == pc \in { "write_info", "done" }
Dates(df) == { r["date"] : r \in Range(df.rows) }
RowAt(df, d) == CHOOSE r \in Range(df.rows) : r["date"] = d
Cell(df, d, c) == IF c \in Range(df.cols) THEN RowAt(df, d)[c] ELSE NaN
SameValue(a, b) == (Absent(a) /\ Absent(b)) \/ a = b
SeriesSet == Range(series_ids)

\* C5: for a date of the refresh window (on or after January 1 of
\* startyear) that the stored dataset and the fetch both have, with
\* different values in some series, the merged dataset and the written
\* file hold the fetched value.
C5_RevisionPrecedence ==
    (Merged /\ pre.data.exists) =>
        \A d \in Dates(Old) \cap Dates(new) : \A c \in SeriesSet :
            (d >= Cutoff /\ ~SameValue(Cell(Old, d, c), Cell(new, d, c)))
            => /\ d \in Dates(combined)
               /\ SameValue(Cell(combined, d, c), Cell(new, d, c))
               /\ \E q \in Range(data_file.rows) :
                    /\ q["date"] = DateText(d)
                    /\ q[c] = FloatText(Cell(new, d, c))

\* a committed run that revised a stored value to another value
C5_Witness ==
    /\ pc = "done"
    /\ pre.data.exists
    /\ \E d \in Dates(Old) \cap Dates(new) : \E c \in SeriesSet :
         /\ d >= Cutoff
         /\ ~Absent(Cell(Old, d, c))
         /\ ~Absent(Cell(new, d, c))
         /\ Cell(Old, d, c) # Cell(new, d, c)

PeriodOf(d) == IF MonthOf(d) = 1 THEN "M01" ELSE "M07"

C7_Idempotent_AsStated ==
    (pc = "done" /\ last.valid) => data_file = last.data

\* C7, amended: the same, when the second run's request starts no earlier
\* than the first's (startyear of the second >= startyear of the first).
C7_Idempotent ==
    (pc = "done" /\ last.valid /\ startyear >= last.startyear)
    => data_file = last.data

\* a second committed run that kept old rows and refetched a later window
C7_Witness ==
    /\ pc = "done"
    /\ last.valid
    /\ startyear > last.startyear
    /\ old_keep.rows # << >>
    /\ new.rows # << >>

\* C8: the rows of the dataset file are in strictly ascending date order.
C8_SortedUnique ==
    \A i, j \in 1..Len(data_file.rows) :
        i < j => ParseDate(data_file.rows[i]["date"]) < ParseDate(data_file.rows[j]["date"])

\* a second run that wrote kept rows followed by several fetched rows
C8_Witness ==
    /\ pc = "done"
    /\ runs = 2
    /\ old_keep.rows # << >>
    /\ Len(new.rows) >= 2
    /\ Len(data_file.rows) >= 3

\* C9: a written dataset file has the columns date, then every catalog
\* series id in the catalog's order, and every row has a cell in each.
C9_ColumnCompleteness ==
    data_file.exists =>
        /\ data_file.cols = << "date" >> \o series_ids
        /\ \A r \in Range(data_file.rows) : DOMAIN r = Range(data_file.cols)

\* a committed dataset with a column, empty in every row, for a series
\* the fetch returned nothing for
C9_Witness ==
    /\ pc = "done"
    /\ new.rows # << >>
    /\ \E c \in SeriesSet :
         /\ c \notin Range(new.cols)
         /\ \A r \in Range(data_file.rows) : r[c] = ""

\* the provider's answer to this run's request yields no observation
EmptyPull ==
    LET p == Parsed(provider, series_ids, startyear, endyear)
    IN \A shape \in { "dict", "list", "other" } :
         p[shape].does = "except" \/ p[shape].df = << >>

\* C10: when the answer to the run's request yields no observation, no
\* fetch succeeds, the run fails and the dataset file keeps its rows.
C10_EmptyPullIsFatal ==
    (/\ pc \in { "done", "failed" }
     /\ requests # << >>
     /\ pre.data.rows # << >>
     /\ EmptyPull)
    => /\ \A i \in 1..Len(requests) : ~requests[i].ok
       /\ pc = "failed"
       /\ data_file = pre.data

(***************************************************************************)
(* Properties of the Provider Client called directly (ClientSpec).         *)
(***************************************************************************)
LastPost == posts[Len(posts)]

\* C11: a call that used up max_retries raises BLSError carrying the cause
\* of its last failed attempt, whether that attempt ended in a transient
\* status or in an exception.
C11_CarriesLastCause ==
    (c_pc = "raised" /\ result.err = "BLSError")
    => /\ Len(posts) = max_retries
       /\ result.cause = LastPost.cause

Ended == c_pc \in { "returned", "raised" }

\* the attempts made so far, each one HTTP request, all from one budget
C12_Budget ==
    /\ Len(posts) <= max_retries
    /\ c_pc = "loop" => Len(posts) = attempt - 1
    /\ Len(sleeps) = Cardinality({ i \in 1..Len(posts) : posts[i].does # "return" })
    /\ \A i \in 1..Len(posts) : posts[i].does = "return" => i = Len(posts)
    /\ c_pc \in { "pivot", "returned" } =>
         /\ LastPost.does = "return"
         /\ result.tidy = CallParsed[LastPost.shape].df
    /\ (c_pc = "raised" /\ call.api_version \in BLS_ENDPOINTS) =>
         /\ Len(posts) = max_retries
         /\ LastPost.does # "return"
         /\ result.err = "BLSError"

\* C12: a call makes at most max_retries HTTP attempts, transient statuses
\* and exceptions counted alike; it always ends, returning the observations
\* of its first successful attempt or raising BLSError.
C12_BoundedRetries == [](C12_Budget) /\ <>Ended

\* a call that succeeded on its last attempt, after a transient status and
\* an exception
C12_Witness ==
    /\ c_pc = "returned"
    /\ Len(posts) = max_retries
    /\ posts[1].does = "continue"
    /\ posts[2].does = "except"
    /\ result.tidy # << >>

(***************************************************************************)
(* Properties of the runs (Spec), continued.                               *)
(***************************************************************************)
\* C13: with a preferred version that is not a key of BLS_ENDPOINTS the run
\* fails with ValueError in its first fetch_bls_wide call, before any HTTP
\* request or sleep; no second call follows and neither file is written.
C13_InvalidVersionFailsFast ==
    (preferred_api_version \notin BLS_ENDPOINTS /\ requests # << >>)
    => /\ Len(requests) = 1
       /\ ~requests[1].ok
       /\ ~requests[1].http
       /\ requests[1].fast
       /\ pc = "failed"
       /\ raised = "ValueError"
       /\ FilesUntouched

\* a run without a key, its preferred version unknown, has failed
C13_Witness ==
    /\ pc = "failed"
    /\ preferred_api_version = "v3"
    /\ ~api_key
    /\ requests # << >>
    /\ raised = "ValueError"

\* C14: a run that finds no stored dataset, or a stored dataset without
\* rows, does not fail in the window computation: it requests
\* endyear - initial_years + 1 through endyear and keeps no old rows.
C14_BootstrapWindow ==
    (pc # "idle" /\ (~pre.data.exists \/ pre.data.rows = << >>))
    => /\ ~(pc = "failed" /\ requests = << >>)
       /\ startyear = endyear - args.initial_years + 1
       /\ old_keep.rows = << >>
       /\ \A i \in 1..Len(requests) :
            /\ requests[i].startyear = endyear - args.initial_years + 1
            /\ requests[i].endyear = endyear

\* maxDate minus refreshMonths calendar months, by years and months
StoredMax == MaxDate(Old)
WindowStartYear ==
    YearOf(StoredMax) - (args.refresh_months \div 12)
    - (IF MonthOf(StoredMax) - (args.refresh_months % 12) < 1 THEN 1 ELSE 0)

\* C18: over a stored dataset with rows, the run requests the year of
\* (latest stored date minus refresh_months calendar months) through
\* endyear, and old_keep is exactly the stored rows dated before January 1
\* of that year (latest 2024-10 and 24 months give 2022).
C18_RefreshWindow ==
    /\ StartYearExisting([ cols |-> << "date" >>,
                           rows |-> << [ date |-> Timestamp(2024, 10) ] >> ], 24) = 2022
    /\ (pc # "idle" /\ pre.data.exists /\ pre.data.rows # << >>)
       => LET year == WindowStartYear
              old == Old
          IN /\ startyear = year
             /\ \A i \in 1..Len(requests) :
                  /\ requests[i].startyear = year
                  /\ requests[i].endyear = endyear
             /\ old_keep.rows =
                  SelectSeq(old.rows, LAMBDA r : r["date"] < Timestamp(year, 1))

\* a committed run whose window started in the latest stored year: it kept
\* some stored rows and replaced the others
C18_Witness ==
    /\ pc = "done"
    /\ pre.data.exists
    /\ old_keep.rows # << >>
    /\ Len(old_keep.rows) < Len(pre.data.rows)
    /\ requests[1].startyear = YearOf(StoredMax)

\* C19: after the merge over an existing dataset, every merged row dated on
\* or after January 1 of startyear is the fetched row of that date, and no
\* stored date of that range that the fetch lacks is in the merged dataset
\* or in the written file.
C19_DeleteThenReplace ==
    (Merged /\ pre.data.exists) =>
        /\ \A r \in Range(combined.rows) :
             r["date"] >= Cutoff
             => /\ r["date"] \in Dates(new)
                /\ \A c \in SeriesSet : SameValue(r[c], Cell(new, r["date"], c))
        /\ \A d \in Dates(Old) :
             (d >= Cutoff /\ d \notin Dates(new))
             => /\ d \notin Dates(combined)
                /\ \A q \in Range(data_file.rows) : q["date"] # DateText(d)

\* a committed run that dropped a stored row of the window because the
\* fetch no longer had its date
C19_Witness ==
    /\ pc = "done"
    /\ pre.data.exists
    /\ new.rows # << >>
    /\ \E d \in Dates(Old) : d >= Cutoff /\ d \notin Dates(new)

\* C20: a run makes at most two fetch_bls_wide calls, one after the other:
\* the second is the v1 call and is made only after the first (v2) has
\* failed; when the v1 call fails the run has failed, with no further call.
C20_AtMostTwoCalls ==
    /\ Len(requests) <= 2
    /\ pc = "fallback" => (Len(requests) = 1 /\ ~requests[1].ok)
    /\ Len(requests) = 2 =>
         /\ ~requests[1].ok
         /\ requests[1].api_version = "v2"
         /\ requests[2].api_version = "v1"
         /\ ~requests[2].ok => (pc = "failed" /\ raised = "BLSError")

\* a first run whose v2 call and then v1 call failed after HTTP attempts
C20_Witness ==
    /\ pc = "failed"
    /\ ~pre.data.exists
    /\ Len(requests) = 2
    /\ requests[2].http
    /\ ~requests[2].ok

(***************************************************************************)
(* Properties of the Provider Client (ClientSpec), continued.              *)
(***************************************************************************)
MonthlyCodes == { "M01", "M07", "M12" }
Parseable(v) == v \in { "3.1", "3.3" }

\* the provider's monthly entries of the requested years
MonthlyEntries ==
    { sl \in DOMAIN provider :
        /\ provider[sl] # NoEntry
        /\ sl[3] \in MonthlyCodes
        /\ call.startyear <= sl[2] /\ sl[2] <= call.endyear }

ObservationOf(sl) ==
    [ date |-> Timestamp(sl[2], PeriodMonth(sl[3])),
      series_id |-> sl[1],
      value |-> to_numeric(provider[sl]) ]

\* C15: what fetch_bls_tidy returns, for either envelope shape, is exactly
\* the provider's monthly entries (M01..M12) with a parseable value, once
\* each: no annual average (M13) is among them.
C15_PeriodFilter ==
    c_pc \in { "pivot", "returned" } =>
        /\ Range(result.tidy) =
             { ObservationOf(sl) : sl \in { x \in MonthlyEntries : Parseable(provider[x]) } }
        /\ \A i, j \in 1..Len(result.tidy) : result.tidy[i] = result.tidy[j] => i = j
        /\ \A sl \in DOMAIN provider : sl[3] = "M13" =>
             \A i \in 1..Len(result.tidy) :
                 ~(/\ result.tidy[i].series_id = sl[1]
                   /\ result.tidy[i].date = Timestamp(sl[2], PeriodMonth(sl[3])))

\* a call answered in the list-shaped envelope, the provider holding an
\* annual average with a parseable value next to monthly entries
C15_Witness ==
    /\ c_pc = "returned"
    /\ LastPost.shape = "list"
    /\ provider[<< series_ids[1], endyear, "M13" >>] = "3.1"
    /\ Len(result.tidy) >= 2

\* C16: an attempt whose response (status succeeded, a recognized envelope)
\* has a monthly entry with an unparseable value returns, and what it
\* returns holds every monthly entry whose value parses.
C16_UnparseableDropped ==
    (/\ posts # << >>
     /\ LastPost.kind = "ok"
     /\ LastPost.shape \in { "dict", "list" }
     /\ \E sl \in MonthlyEntries : ~Parseable(provider[sl]))
    => /\ LastPost.does = "return"
       /\ c_pc \in { "pivot", "returned" }
       /\ \A sl \in MonthlyEntries :
            IF Parseable(provider[sl])
            THEN ObservationOf(sl) \in Range(result.tidy)
            ELSE \A r \in Range(result.tidy) :
                    ~(r.series_id = sl[1] /\ r.date = ObservationOf(sl).date)

\* a call that returned the parseable entries of a response that also had
\* an unparseable one
C16_Witness ==
    /\ c_pc = "returned"
    /\ \E sl \in MonthlyEntries : ~Parseable(provider[sl])
    /\ \E sl \in MonthlyEntries : Parseable(provider[sl])
    /\ result.tidy # << >>

\* C17: what fetch_bls_wide returns has the column date and one column for
\* each requested series id, one row per date, the dates ascending.
C17_ColumnPerRequestedSeries ==
    c_pc = "returned" =>
        /\ Len(result.wide.cols) = 1 + Len(series_ids)
        /\ Range(result.wide.cols) = { "date" } \cup Range(series_ids)
        /\ \A i, j \in 1..Len(result.wide.rows) :
             i < j => result.wide.rows[i]["date"] < result.wide.rows[j]["date"]

\* C21: after failed attempt k the call has slept 2 * k seconds when the
\* attempt ended in a transient status, 1 * k seconds when it ended in any
\* exception; a response with a status other than REQUEST_SUCCEEDED is such
\* an exception: it is followed by the next attempt while the budget lasts.
C21_LinearBackoff ==
    /\ \A k \in 1..Len(sleeps) :
         /\ k <= Len(posts)
         /\ posts[k].does # "return"
         /\ sleeps[k] = IF posts[k].kind = "transient" THEN 2 * k ELSE 1 * k
    /\ \A k \in 1..Len(posts) :
         posts[k].kind = "not_succeeded"
         => /\ posts[k].does = "except"
            /\ k <= Len(sleeps)
            /\ k < max_retries =>
                 (Len(posts) > k \/ (c_pc = "loop" /\ attempt = k + 1))

\* a call that failed after a transient status, a non-success status and a
\* connection error
C21_Witness ==
    /\ c_pc = "raised"
    /\ Len(posts) = max_retries
    /\ posts[1].kind = "transient"
    /\ posts[2].kind = "not_succeeded"
    /\ posts[3].kind = "error"
    /\ sleeps = << 2, 2, 3 >>

\* the response to the call's request in the given envelope shape
CallPayload(shape) == Payload(provider, series_ids, call.startyear, call.endyear, shape)

\* C22: the same series content nested directly under a Results object and
\* nested in a single-element list of such objects gives the same output
\* (or the same failure); any other shape of Results gives an empty series
\* list, and the attempt that received it fails for want of series.
C22_EnvelopeNormalization ==
    call # NoCall =>
        /\ _extract_series_list(CallPayload("dict")) = _extract_series_list(CallPayload("list"))
        /\ Len(_extract_series_list(CallPayload("dict"))) = Len(series_ids)
        /\ ParseBody(CallPayload("dict")) = ParseBody(CallPayload("list"))
        /\ \A shape \in OtherShapes :
             /\ _extract_series_list(CallPayload(shape)) = << >>
             /\ ParseBody(CallPayload(shape)).does = "except"
        /\ \A k \in 1..Len(posts) :
             posts[k].kind = "ok" =>
                IF posts[k].shape \in OtherShapes
                THEN posts[k].does = "except" /\ posts[k].cause = "BLSError:no series"
                ELSE posts[k].does = "return" => result.tidy = ParseBody(CallPayload("dict")).df
        /\ c_pc = "returned" => result.wide = Pivot(ParseBody(CallPayload("list")).df)

\* a call that got a response without a series array, then the list-shaped
\* envelope, and returned its observations
C22_Witness ==
    /\ c_pc = "returned"
    /\ Len(posts) = 2
    /\ posts[1].kind = "ok"
    /\ posts[1].shape \in OtherShapes
    /\ posts[2].shape = "list"
    /\ result.wide.rows # << >>

(***************************************************************************)
(* Properties of the runs (Spec), continued.                               *)
(***************************************************************************)
\* C23: every fetch_bls_wide call of a run asks for startyear <= endyear,
\* whatever the stored dataset and whatever --refresh-months and
\* --initial-years the script was given.
C23_WindowOrdered ==
    \A i \in 1..Len(requests) : requests[i].startyear <= requests[i].endyear

\* C24: the dataset file a committed run leaves has at least one row, so
\* that the next run can compute max_date and its window.
C24_CommittedHasRows ==
    pc = "done" => data_file.rows # << >>
====
